---------------------------- MODULE Spec2Model ----------------------------
(***************************************************************************)
(* A model of hf-raid.                                                     *)
(*                                                                         *)
(*   split_folder (src/src/hf_raid/split_files.py) moves the entries of    *)
(*   one directory to a list of destination directories.                   *)
(*                                                                         *)
(*   measure_split_transfer_speed (src/full_concept.py) loads the shards   *)
(*   of two directories with one pool worker per directory and prints      *)
(*   per-directory and overall statistics.                                 *)
(*                                                                         *)
(* The two programs share no state.  Spec is split_folder, HarnessSpec is  *)
(* the measurement; each leaves the variables of the other at their idle   *)
(* values.                                                                 *)
(*                                                                         *)
(* A directory entry is modelled by its name, a name by a natural number   *)
(* whose order is the lexical order of the names (Path comparison inside   *)
(* one directory).  A directory is the set of the names in it.             *)
(*                                                                         *)
(* The destinations of split_folder are pairwise different directories,    *)
(* none of them the source or inside it, and hold no entry at the call;    *)
(* each may or may not exist then.  mkdir and rename either take effect    *)
(* whole or raise and change nothing (os.mkdir, os.rename).                *)
(*                                                                         *)
(* pool.map of multiprocessing returns, or re-raises the exception of a    *)
(* task, once every task has ended.  A load takes a positive time.         *)
(***************************************************************************)
EXTENDS Integers, Sequences, FiniteSets

(***************************************************************************)
(* Bounds of the model.                                                    *)
(***************************************************************************)
\* Names an entry of the source directory may have: 1..MaxFiles.
MaxFiles == 4
\* split_folder is called with 0..MaxDest destinations.
MaxDest == 3
\* A volume holds 0..ExpectedShards + MaxSpare shard files.
MaxSpare == 1
\* The shards of a volume have a size of 1..MaxSize GB each.
MaxSize == 2
\* A shard loads in FastTime or in SlowTime seconds, and at most MaxSlow
\* loads of a worker are slow.
FastTime == 1
SlowTime == 2
MaxSlow == 1
\* glob returns the files of a directory in ascending order rotated by
\* 0..MaxRot places.
MaxRot == 1

Names == 1..MaxFiles

\* Path.suffix of an entry; ls(file_exts=".safetensors") keeps the first.
Suffixes == {".safetensors", ".json"}

VARIABLES
    \* ---- split_folder: the file system and the arguments
    suffix,         \* name -> suffix of the entry of that name
    base_location,  \* the names in the source directory
    base0,          \* the names in the source directory at the call
    n_args,         \* number of destinations passed
    exists,         \* destination index -> the directory exists
    destinations,   \* destination index -> the names in that directory
    \* ---- split_folder: locals
    st,             \* list of the .safetensors entries
    non_st,         \* list of the other entries
    made,           \* destinations the mkdir map has gone through
    nj,             \* entries of non_st the rename map has gone through
    n_dest, chunk_size, remainder,
    start,          \* start of the current destination's slice (0-based)
    i,              \* index of the current destination (0-based)
    pos,            \* 0-based index in st of the next file of the slice
    pc,             \* the statement split_folder is at
    err,            \* the exception split_folder raised, "" if none
    \* ---- measure_split_transfer_speed: the inputs
    dirs,           \* volume -> the shard numbers of its *.safetensors files
    shard_gb,       \* volume -> the size in GB of each of its shards
    \* ---- measure_split_transfer_speed: locals
    files,          \* volume -> files1, files2 of get_weight_files
    results,        \* what pool.map returned, <<>> before
    report,         \* the overall statistics printed, <<>> before
    hpc,            \* the statement measure_split_transfer_speed is at
    herr,           \* the exception its except clause caught, "" if none
    \* ---- load_raid_shards: the locals of each worker
    wpc,            \* worker -> "loop", "returned" or "raised"
    wi,             \* worker -> iterations of the loop completed
    wresults,       \* worker -> results
    wtotal_size,    \* worker -> total_size
    wtotal_time     \* worker -> total_time

splitVars == <<suffix, base_location, base0, n_args, exists, destinations,
               st, non_st, made, nj, n_dest, chunk_size, remainder,
               start, i, pos, pc, err>>

harnessVars == <<dirs, shard_gb, files, results, report, hpc, herr,
                 wpc, wi, wresults, wtotal_size, wtotal_time>>

vars == <<splitVars, harnessVars>>

(***************************************************************************)
(* Python helpers.                                                         *)
(***************************************************************************)
RECURSIVE Insert(_, _)
Insert(x, s) ==
    IF s = <<>> THEN <<x>>
    ELSE IF x <= Head(s) THEN <<x>> \o s
    ELSE <<Head(s)>> \o Insert(x, Tail(s))

\* sorted(s)
RECURSIVE Sorted(_)
Sorted(s) == IF s = <<>> THEN <<>> ELSE Insert(Head(s), Sorted(Tail(s)))

\* The orders in which a directory listing may return the set S.
Listings(S) ==
    { f \in [1..Cardinality(S) -> S] : \A x \in S : \E p \in DOMAIN f : f[p] = x }

Range(s) == { s[p] : p \in DOMAIN s }

\* s[a:b] of a Python list (0-based, b exclusive, clipped to the list)
Slice(s, a, b) ==
    LET hi == IF b < Len(s) THEN b ELSE Len(s)
    IN  IF a >= hi THEN <<>> ELSE SubSeq(s, a + 1, hi)

(***************************************************************************)
(* split_folder                                                            *)
(***************************************************************************)
DestIdx == 0..(n_args - 1)

\* o.suffix in extns, of ls(file_exts=".safetensors")
IsSt(x) == suffix[x] = ".safetensors"

\* all_files.filter(lambda x: x not in st)
NonStFilter(all_files, stl) ==
    SelectSeq(all_files, LAMBDA x : x \notin Range(stl))

\* (mutant) the other files are moved before the destinations are created
NextPcMoveFirst(p) ==
    CASE p = "ls"     -> "non_st"
      [] p = "non_st" -> "mkdir"
      [] p = "mkdir"  -> "sort"
      [] p = "sort"   -> "loop"
      [] p = "loop"   -> "done"

\* The statements of split_folder in the order they run.
NextPc(p) ==
    CASE p = "ls"     -> "mkdir"
      [] p = "mkdir"  -> "non_st"
      [] p = "non_st" -> "sort"
      [] p = "sort"   -> "loop"
      [] p = "loop"   -> "done"

SplitInit ==
    /\ base_location \in SUBSET Names
    /\ base0 = base_location
    /\ suffix \in [Names -> Suffixes]
    /\ \A x \in Names \ base_location : suffix[x] = ".json"
    /\ n_args \in 0..MaxDest
    /\ exists \in [0..(n_args - 1) -> BOOLEAN]
    /\ destinations = [d \in 0..(n_args - 1) |-> {}]
    /\ st = <<>>
    /\ non_st = <<>>
    /\ made = 0
    /\ nj = 0
    /\ n_dest = 0
    /\ chunk_size = 0
    /\ remainder = 0
    /\ start = 0
    /\ i = 0
    /\ pos = 0
    /\ pc = "ls"
    /\ err = ""

\* lines 16-18: the two listings and the filter
Ls ==
    /\ pc = "ls"
    /\ \E all_files \in Listings(base_location) :
       \E stl \in Listings({x \in base_location : IsSt(x)}) :
          /\ st' = stl
          /\ non_st' = NonStFilter(all_files, stl)
    /\ pc' = NextPc(pc)
    /\ UNCHANGED harnessVars
    /\ UNCHANGED <<suffix, base_location, base0, n_args, exists, destinations,
                   made, nj, n_dest, chunk_size, remainder, start, i, pos, err>>

\* (mutant) the entry is copied, not moved
RenameFromCopy(x) == base_location

\* the names left in the source directory once x.rename(...) has succeeded
RenameFrom(x) == base_location \ {x}

\* the destination directories once x.rename(destinations[d]/x.name) has
\* succeeded: the entry keeps its name
RenameInto(x, d) == [destinations EXCEPT ![d] = @ \cup {x}]

\* x.rename(destinations[d]/x.name) can succeed: x is still in the source
\* directory and the destination directory exists
CanRename(x, d) == x \in base_location /\ d \in DestIdx /\ exists[d]

\* line 19: one destination of destinations.map(Self.mkdir(...)) is created
Mkdir ==
    /\ pc = "mkdir"
    /\ made < n_args
    /\ exists' = [exists EXCEPT ![made] = TRUE]
    /\ made' = made + 1
    /\ UNCHANGED harnessVars
    /\ UNCHANGED <<suffix, base_location, base0, n_args, destinations, st,
                   non_st, nj, n_dest, chunk_size, remainder, start, i, pos,
                   pc, err>>

\* line 19: mkdir raises (the directory cannot be created)
MkdirFail ==
    /\ pc = "mkdir"
    /\ made < n_args
    /\ pc' = "error"
    /\ err' = "mkdir"
    /\ UNCHANGED harnessVars
    /\ UNCHANGED <<suffix, base_location, base0, n_args, exists, destinations,
                   st, non_st, made, nj, n_dest, chunk_size, remainder,
                   start, i, pos>>

\* line 19: the map is through
MkdirEnd ==
    /\ pc = "mkdir"
    /\ made = n_args
    /\ pc' = NextPc(pc)
    /\ UNCHANGED harnessVars
    /\ UNCHANGED <<suffix, base_location, base0, n_args, exists, destinations,
                   st, non_st, made, nj, n_dest, chunk_size, remainder,
                   start, i, pos, err>>

\* (mutant) the other files go to the last destination
NonStDestLast == n_args - 1

\* line 21: the index of the destination of the other files
NonStDest == 0

\* line 21: one entry of non_st is renamed into destinations[0]
MoveNonSt ==
    /\ pc = "non_st"
    /\ nj < Len(non_st)
    /\ CanRename(non_st[nj + 1], NonStDest)
    /\ base_location' = RenameFrom(non_st[nj + 1])
    /\ destinations' = RenameInto(non_st[nj + 1], NonStDest)
    /\ nj' = nj + 1
    /\ UNCHANGED harnessVars
    /\ UNCHANGED <<suffix, base0, n_args, exists, st, non_st, made, n_dest,
                   chunk_size, remainder, start, i, pos, pc, err>>

\* line 21: destinations[0] of an empty list raises IndexError; rename raises
\* OSError (always when it cannot succeed, and whenever the system refuses)
MoveNonStFail ==
    /\ pc = "non_st"
    /\ nj < Len(non_st)
    /\ pc' = "error"
    /\ err' = IF n_args = 0 THEN "IndexError" ELSE "rename"
    /\ UNCHANGED harnessVars
    /\ UNCHANGED <<suffix, base_location, base0, n_args, exists, destinations,
                   st, non_st, made, nj, n_dest, chunk_size, remainder,
                   start, i, pos>>

\* line 21: the map is through
MoveNonStEnd ==
    /\ pc = "non_st"
    /\ nj = Len(non_st)
    /\ pc' = NextPc(pc)
    /\ UNCHANGED harnessVars
    /\ UNCHANGED <<suffix, base_location, base0, n_args, exists, destinations,
                   st, non_st, made, nj, n_dest, chunk_size, remainder,
                   start, i, pos, err>>

\* (mutant) the listing is not sorted
UnsortedSt == st

\* line 23: sorted(st)
SortedSt == Sorted(st)

\* lines 23-28
SortAndCount ==
    /\ pc = "sort"
    /\ n_args > 0
    /\ st' = SortedSt
    /\ n_dest' = n_args
    /\ chunk_size' = Len(st) \div n_args
    /\ remainder' = Len(st) % n_args
    /\ start' = 0
    /\ i' = 0
    /\ pos' = 0
    /\ pc' = NextPc(pc)
    /\ UNCHANGED harnessVars
    /\ UNCHANGED <<suffix, base_location, base0, n_args, exists, destinations,
                   non_st, made, nj, err>>

\* line 25: len(st) // 0 raises ZeroDivisionError
SortAndCountFail ==
    /\ pc = "sort"
    /\ n_args = 0
    /\ st' = SortedSt
    /\ pc' = "error"
    /\ err' = "ZeroDivisionError"
    /\ UNCHANGED harnessVars
    /\ UNCHANGED <<suffix, base_location, base0, n_args, exists, destinations,
                   non_st, made, nj, n_dest, chunk_size, remainder, start, i,
                   pos>>

\* (mutant) the last destinations take the extra files
ExtraLast(d) == IF d >= n_dest - remainder THEN 1 ELSE 0

\* line 31
Extra(d) == IF d < remainder THEN 1 ELSE 0

\* (mutant) the extra file is left out of the slice
EndNoExtra(d) == start + chunk_size

\* line 32
End(d) == start + chunk_size + Extra(d)

\* line 35: st[start:end]
Chunk == Slice(st, start, End(i))

\* line 35: one file of the slice is renamed into destinations[i]
MoveSt ==
    /\ pc = "loop"
    /\ i < n_dest
    /\ pos < Len(Chunk)
    /\ CanRename(Chunk[pos + 1], i)
    /\ base_location' = RenameFrom(Chunk[pos + 1])
    /\ destinations' = RenameInto(Chunk[pos + 1], i)
    /\ pos' = pos + 1
    /\ UNCHANGED harnessVars
    /\ UNCHANGED <<suffix, base0, n_args, exists, st, non_st, made, nj,
                   n_dest, chunk_size, remainder, start, i, pc, err>>

\* line 35: rename raises
MoveStFail ==
    /\ pc = "loop"
    /\ i < n_dest
    /\ pos < Len(Chunk)
    /\ pc' = "error"
    /\ err' = "rename"
    /\ UNCHANGED harnessVars
    /\ UNCHANGED <<suffix, base_location, base0, n_args, exists, destinations,
                   st, non_st, made, nj, n_dest, chunk_size, remainder,
                   start, i, pos>>

\* line 37, and the next iteration of line 29
NextDest ==
    /\ pc = "loop"
    /\ i < n_dest
    /\ pos = Len(Chunk)
    /\ start' = End(i)
    /\ i' = i + 1
    /\ pos' = 0
    /\ UNCHANGED harnessVars
    /\ UNCHANGED <<suffix, base_location, base0, n_args, exists, destinations,
                   st, non_st, made, nj, n_dest, chunk_size, remainder, pc,
                   err>>

\* line 29: the loop is through, split_folder returns
Return ==
    /\ pc = "loop"
    /\ i = n_dest
    /\ pc' = NextPc(pc)
    /\ UNCHANGED harnessVars
    /\ UNCHANGED <<suffix, base_location, base0, n_args, exists, destinations,
                   st, non_st, made, nj, n_dest, chunk_size, remainder,
                   start, i, pos, err>>

SplitNext ==
    \/ Ls
    \/ Mkdir \/ MkdirFail \/ MkdirEnd
    \/ MoveNonSt \/ MoveNonStFail \/ MoveNonStEnd
    \/ SortAndCount \/ SortAndCountFail
    \/ MoveSt \/ MoveStFail \/ NextDest \/ Return

(***************************************************************************)
(* full_concept.py                                                         *)
(*                                                                         *)
(* A shard file model-NNNNN-of-MMMMM.safetensors is modelled by its number *)
(* NNNNN: the names are zero-padded, so sorted() orders the paths of one   *)
(* directory by that number, and split('-')[1] reads it back.  Sizes are   *)
(* in GB and durations in seconds, both whole numbers; a quotient a/b is   *)
(* kept as the fraction <<a, b>>.                                          *)
(***************************************************************************)
\* line 24: the number of shards get_weight_files expects in each directory
ExpectedShards == 8

\* line 96
num_workers == 2

Workers == 0..(num_workers - 1)

\* lines 102-105: the raid_name of each worker
RaidName(w) == IF w = 0 THEN "RAID0" ELSE "RAID1"

\* The numbers a volume's shards may have (volume 0 holds the first ones).
FirstShard(w) == w * ExpectedShards + 1

\* S in ascending order
RECURSIVE Ascending(_)
Ascending(S) ==
    IF S = {} THEN <<>>
    ELSE LET m == CHOOSE x \in S : \A y \in S : x <= y
         IN  <<m>> \o Ascending(S \ {m})

\* s rotated left by r places
Rotate(s, r) ==
    IF Len(s) = 0 THEN s
    ELSE [p \in 1..Len(s) |-> s[((p - 1 + r) % Len(s)) + 1]]

\* Path(dir).glob("*.safetensors"): the orders it may return the files in
Glob(w) == { Rotate(Ascending(dirs[w]), r) : r \in 0..MaxRot }

\* lines 15-17 and 20-22: sorted([str(p) for p in ...glob(...)])
SortedGlob(g) == Sorted(g)

\* a / b
Div(a, b) == <<a, b>>

RECURSIVE SumSeq(_)
SumSeq(s) == IF s = <<>> THEN 0 ELSE Head(s) + SumSeq(Tail(s))

RECURSIVE MaxSeq(_)
MaxSeq(s) ==
    IF Len(s) = 1 THEN Head(s)
    ELSE LET m == MaxSeq(Tail(s)) IN IF Head(s) >= m THEN Head(s) ELSE m

HarnessInit ==
    /\ \E c \in [Workers -> 0..(ExpectedShards + MaxSpare)] :
          dirs = [w \in Workers |-> FirstShard(w)..(FirstShard(w) + c[w] - 1)]
    /\ shard_gb \in [Workers -> 1..MaxSize]
    /\ files = [w \in Workers |-> <<>>]
    /\ results = <<>>
    /\ report = <<>>
    /\ hpc = "get_weight_files"
    /\ herr = ""
    /\ wpc = [w \in Workers |-> "idle"]
    /\ wi = [w \in Workers |-> 0]
    /\ wresults = [w \in Workers |-> <<>>]
    /\ wtotal_size = [w \in Workers |-> 0]
    /\ wtotal_time = [w \in Workers |-> 0]

\* line 24
CountsOk(f) == \A w \in Workers : Len(f[w]) = ExpectedShards

\* lines 93-109: get_weight_files returns and pool.map hands one task to
\* each worker
GetWeightFiles ==
    /\ hpc = "get_weight_files"
    /\ \E g \in [Workers -> UNION { Glob(w) : w \in Workers }] :
          /\ \A w \in Workers : g[w] \in Glob(w)
          /\ files' = [w \in Workers |-> SortedGlob(g[w])]
    /\ CountsOk(files')
    /\ hpc' = "pool"
    /\ wpc' = [w \in Workers |-> "loop"]
    /\ UNCHANGED splitVars
    /\ UNCHANGED <<dirs, shard_gb, results, report, herr, wi, wresults,
                   wtotal_size, wtotal_time>>

\* lines 24-25 and 136-137: get_weight_files raises ValueError, which the
\* except clause prints
GetWeightFilesFail ==
    /\ hpc = "get_weight_files"
    /\ \E g \in [Workers -> UNION { Glob(w) : w \in Workers }] :
          /\ \A w \in Workers : g[w] \in Glob(w)
          /\ files' = [w \in Workers |-> SortedGlob(g[w])]
    /\ ~CountsOk(files')
    /\ hpc' = "error"
    /\ herr' = "ValueError"
    /\ UNCHANGED splitVars
    /\ UNCHANGED <<dirs, shard_gb, results, report, wpc, wi, wresults,
                   wtotal_size, wtotal_time>>

\* (mutant) the worker goes through its list from the end
ShardFileReversed(w, n) == files[w][Len(files[w]) - n]

\* line 55: the shard of iteration n (0-based) of worker w
ShardFile(w, n) == files[w][n + 1]

\* line 76: int(Path(shard_file).name.split('-')[1])
ShardNumber(f) == f

\* load_file and the materialisation may take the slow time
MaySlow(w) ==
    Cardinality({p \in DOMAIN wresults[w] : wresults[w][p].time > FastTime})
        < MaxSlow

LoadTimes(w) == IF MaySlow(w) THEN {FastTime, SlowTime} ELSE {FastTime}

\* lines 55-77: one iteration of the loop of worker w
LoadShard(w) ==
    /\ hpc = "pool"
    /\ wpc[w] = "loop"
    /\ wi[w] < Len(files[w])
    /\ \E load_time \in LoadTimes(w) :
          LET shard_file == ShardFile(w, wi[w])
              size_gb == shard_gb[w]
          IN  /\ wtotal_size' = [wtotal_size EXCEPT ![w] = @ + size_gb]
              /\ wtotal_time' = [wtotal_time EXCEPT ![w] = @ + load_time]
              /\ wresults' = [wresults EXCEPT ![w] = Append(@,
                     [file |-> shard_file, size |-> size_gb,
                      time |-> load_time, shard |-> ShardNumber(shard_file)])]
    /\ wi' = [wi EXCEPT ![w] = @ + 1]
    /\ UNCHANGED splitVars
    /\ UNCHANGED <<dirs, shard_gb, files, results, report, hpc, herr, wpc>>

\* line 57: load_file raises in worker w; nothing in load_raid_shards
\* catches it, so the task ends with the exception
LoadShardFail(w) ==
    /\ hpc = "pool"
    /\ wpc[w] = "loop"
    /\ wi[w] < Len(files[w])
    /\ wpc' = [wpc EXCEPT ![w] = "raised"]
    /\ UNCHANGED splitVars
    /\ UNCHANGED <<dirs, shard_gb, files, results, report, hpc, herr, wi,
                   wresults, wtotal_size, wtotal_time>>

\* lines 79-85: the value load_raid_shards returns
WorkerDict(w) ==
    [raid_name |-> RaidName(w), worker_id |-> w, shards |-> wresults[w],
     total_size |-> wtotal_size[w], total_time |-> wtotal_time[w]]

\* lines 55 and 79: the loop of worker w is through and it returns
WorkerReturn(w) ==
    /\ hpc = "pool"
    /\ wpc[w] = "loop"
    /\ wi[w] = Len(files[w])
    /\ wpc' = [wpc EXCEPT ![w] = "returned"]
    /\ UNCHANGED splitVars
    /\ UNCHANGED <<dirs, shard_gb, files, results, report, hpc, herr, wi,
                   wresults, wtotal_size, wtotal_time>>

\* (mutant) the results are collected when the first task has ended
JoinReadyAny == \E w \in Workers : wpc[w] \in {"returned", "raised"}

\* line 109: pool.map waits until every task has ended
JoinReady == \A w \in Workers : wpc[w] \in {"returned", "raised"}

\* lines 109-123: pool.map returns the workers' values in the order of
\* worker_args, and they are printed
PoolMapReturn ==
    /\ hpc = "pool"
    /\ JoinReady
    /\ \A w \in Workers : wpc[w] # "raised"
    /\ results' = [p \in 1..num_workers |-> WorkerDict(p - 1)]
    /\ hpc' = "stats"
    /\ UNCHANGED splitVars
    /\ UNCHANGED <<dirs, shard_gb, files, report, herr, wpc, wi, wresults,
                   wtotal_size, wtotal_time>>

\* lines 109 and 136-137: pool.map re-raises the exception of a task, and
\* the except clause prints it; nothing else is printed
PoolMapRaise ==
    /\ hpc = "pool"
    /\ JoinReady
    /\ \E w \in Workers : wpc[w] = "raised"
    /\ hpc' = "error"
    /\ herr' = "load_file"
    /\ UNCHANGED splitVars
    /\ UNCHANGED <<dirs, shard_gb, files, results, report, wpc, wi, wresults,
                   wtotal_size, wtotal_time>>

\* line 126
TotalSize(rs) == SumSeq([p \in DOMAIN rs |-> rs[p].total_size])

\* (mutant) the total time is the sum of the workers' times
MaxTimeSummed(rs) == SumSeq([p \in DOMAIN rs |-> rs[p].total_time])

\* line 127
MaxTime(rs) == MaxSeq([p \in DOMAIN rs |-> rs[p].total_time])

\* line 131: the rate printed for each volume
VolumeRates(rs) ==
    [p \in DOMAIN rs |-> [raid_name |-> rs[p].raid_name,
                          total_size |-> rs[p].total_size,
                          rate |-> Div(rs[p].total_size, rs[p].total_time)]]

\* lines 126-134: the overall statistics
OverallStatistics ==
    /\ hpc = "stats"
    /\ report' = [volumes |-> VolumeRates(results),
                  total_size |-> TotalSize(results),
                  max_time |-> MaxTime(results),
                  effective |-> Div(TotalSize(results), MaxTime(results))]
    /\ hpc' = "done"
    /\ UNCHANGED splitVars
    /\ UNCHANGED <<dirs, shard_gb, files, results, herr, wpc, wi, wresults,
                   wtotal_size, wtotal_time>>

HarnessNext ==
    \/ GetWeightFiles
    \/ GetWeightFilesFail
    \/ \E w \in Workers : LoadShard(w)
    \/ \E w \in Workers : LoadShardFail(w)
    \/ \E w \in Workers : WorkerReturn(w)
    \/ PoolMapReturn
    \/ PoolMapRaise
    \/ OverallStatistics

(***************************************************************************)
(* The specifications.                                                     *)
(***************************************************************************)
SplitIdle ==
    /\ suffix = [x \in Names |-> ".json"]
    /\ base_location = {}
    /\ base0 = {}
    /\ n_args = 0
    /\ exists = <<>>
    /\ destinations = <<>>
    /\ st = <<>>
    /\ non_st = <<>>
    /\ made = 0
    /\ nj = 0
    /\ n_dest = 0
    /\ chunk_size = 0
    /\ remainder = 0
    /\ start = 0
    /\ i = 0
    /\ pos = 0
    /\ pc = "idle"
    /\ err = ""

HarnessIdle ==
    /\ dirs = [w \in Workers |-> {}]
    /\ shard_gb = [w \in Workers |-> 1]
    /\ files = [w \in Workers |-> <<>>]
    /\ results = <<>>
    /\ report = <<>>
    /\ hpc = "idle"
    /\ herr = ""
    /\ wpc = [w \in Workers |-> "idle"]
    /\ wi = [w \in Workers |-> 0]
    /\ wresults = [w \in Workers |-> <<>>]
    /\ wtotal_size = [w \in Workers |-> 0]
    /\ wtotal_time = [w \in Workers |-> 0]

\* split_folder
Init == SplitInit /\ HarnessIdle
Next == SplitNext
Spec == Init /\ [][Next]_vars

\* measure_split_transfer_speed
HarnessStart == HarnessInit /\ SplitIdle
HarnessSpec == HarnessStart /\ [][HarnessNext]_vars

(***************************************************************************)
(* Properties of split_folder (checked under Spec).                        *)
(***************************************************************************)
\* The shard files and the other entries of the source directory at the call.
Shards0 == { x \in base0 : IsSt(x) }
Others0 == { x \in base0 : ~IsSt(x) }

\* The shard files destination d holds.
Assigned(d) == { x \in destinations[d] : IsSt(x) }

\* The number of shards of the source that sort before x.
Rank(x) == Cardinality({ y \in Shards0 : y < x })

\* The size the remainder policy gives destination d of k, for n shards.
PolicySize(n, k, d) == (n \div k) + (IF d < n % k THEN 1 ELSE 0)

\* The number of shards the policy gives the destinations before d.
RECURSIVE PolicyStart(_, _, _)
PolicyStart(n, k, d) ==
    IF d = 0 THEN 0 ELSE PolicyStart(n, k, d - 1) + PolicySize(n, k, d - 1)

\* The run of the sorted shard list the policy gives destination d.
PolicyRun(d) ==
    { x \in Shards0 :
        /\ PolicyStart(Cardinality(Shards0), n_args, d) <= Rank(x)
        /\ Rank(x) < PolicyStart(Cardinality(Shards0), n_args, d + 1) }

\* The directories (source: -1, destination: its index) that hold x.
Holders(x) ==
    (IF x \in base_location THEN {-1} ELSE {})
        \cup { d \in DestIdx : x \in destinations[d] }

\* C1 (split completeness): when split_folder has returned, the shard sets of
\* the destinations are pairwise disjoint, their union is the shard set of
\* the source, and no shard is left in the source.
C1_SplitCompleteness ==
    pc = "done" =>
        /\ n_args >= 1
        /\ \A d \in DestIdx : \A e \in DestIdx :
              d # e => Assigned(d) \cap Assigned(e) = {}
        /\ UNION { Assigned(d) : d \in DestIdx } = Shards0
        /\ \A x \in Shards0 : x \notin base_location

C1_Witness ==
    /\ pc = "done"
    /\ n_args >= 2
    /\ Cardinality(Shards0) >= 3
    /\ Cardinality(Shards0) % n_args # 0

\* C2 (remainder policy and balance): when split_folder has returned with n
\* shards and k destinations, destination d holds n div k + 1 shards if
\* d < n mod k and n div k otherwise; two destinations differ by at most one
\* shard; with n < k the destinations from index n on hold none.
C2_RemainderPolicy ==
    pc = "done" =>
        LET n == Cardinality(Shards0)
            k == n_args
        IN  /\ \A d \in DestIdx :
                  Cardinality(Assigned(d)) =
                      (IF d < n % k THEN (n \div k) + 1 ELSE n \div k)
            /\ \A d \in DestIdx : \A e \in DestIdx :
                  Cardinality(Assigned(d)) - Cardinality(Assigned(e)) <= 1
            /\ n < k => \A d \in DestIdx : d >= n => Assigned(d) = {}

C2_Witness ==
    /\ pc = "done"
    /\ Cardinality(Shards0) >= 2
    /\ Cardinality(Shards0) < n_args

\* C3 (order preservation): when split_folder has returned, destination d
\* holds exactly the run of the sorted shard list that starts where the runs
\* of the destinations before it end, and every shard of a destination sorts
\* before every shard of a later destination.
C3_OrderPreservation ==
    pc = "done" =>
        /\ \A d \in DestIdx : Assigned(d) = PolicyRun(d)
        /\ \A d \in DestIdx : \A e \in DestIdx :
              d < e => \A x \in Assigned(d) : \A y \in Assigned(e) : x < y

C3_Witness ==
    /\ pc = "done"
    /\ n_args = 2
    /\ Cardinality(Assigned(0)) = 2
    /\ Cardinality(Assigned(1)) = 2

\* C4 (non-shard routing): when split_folder has returned, every entry of the
\* source that is not a shard is in destinations[0], under its name, and in
\* no other directory.
C4_NonShardRouting ==
    pc = "done" => \A x \in Others0 : Holders(x) = {0}

C4_Witness ==
    /\ pc = "done"
    /\ n_args >= 2
    /\ Cardinality(Others0) >= 2
    /\ Shards0 # {}

\* C9 (create before move): while a destination directory is missing no entry
\* has left the source, and when mkdir has failed the source holds what it
\* held at the call and every destination is empty.
C9_CreateBeforeMove ==
    /\ (\E d \in DestIdx : ~exists[d]) =>
          /\ base_location = base0
          /\ \A d \in DestIdx : destinations[d] = {}
    /\ (pc = "error" /\ err = "mkdir") =>
          /\ base_location = base0
          /\ \A d \in DestIdx : destinations[d] = {}

C9_Witness ==
    /\ pc = "error"
    /\ err = "mkdir"
    /\ made >= 1
    /\ Cardinality(base0) >= 2
    /\ \E d \in DestIdx : ~exists[d]

\* C10 (single ownership): in every state of a run, also after a rename has
\* failed, every entry the source held at the call is in exactly one
\* directory: the source, or the destination the policy assigns it (the first
\* for an entry that is no shard); and the directories hold nothing else.
C10_SingleOwnership ==
    /\ \A x \in base0 :
          /\ Cardinality(Holders(x)) = 1
          /\ \A d \in DestIdx : x \in destinations[d] =>
                IF IsSt(x) THEN x \in PolicyRun(d) ELSE d = 0
    /\ \A x \in Names \ base0 : Holders(x) = {}

C10_Witness ==
    /\ pc = "error"
    /\ err = "rename"
    /\ \E x \in Shards0 : x \in base_location
    /\ \E x \in Shards0 : x \notin base_location
    /\ \E x \in Others0 : x \notin base_location

(***************************************************************************)
(* Properties of measure_split_transfer_speed (checked under HarnessSpec).  *)
(***************************************************************************)
\* The sum of the field fld of the per-shard records of worker w.
RECURSIVE ShardSum(_, _, _)
ShardSum(w, fld, n) ==
    IF n = 0 THEN 0 ELSE ShardSum(w, fld, n - 1) + wresults[w][n][fld]

\* The sum over the workers below n of the values t[w].
RECURSIVE WorkerSum(_, _)
WorkerSum(t, n) == IF n = 0 THEN 0 ELSE WorkerSum(t, n - 1) + t[n - 1]

\* a/b and c/d are the same number.
SameQuotient(q, a, b) == q[2] # 0 /\ b # 0 /\ q[1] * b = a * q[2]

\* The measurement has ended: the statistics are printed or the error is.
Ended == hpc \in {"done", "error"}

\* C5 (worker fault isolation): when the measurement has ended, the read of
\* a shard failed in one worker w after it had completed at least one shard,
\* and every other worker returned, then the results hold for w the shards it
\* had completed with their partial totals, the result of every other worker
\* is in the results as it returned it, and the overall statistics are
\* produced.
C5_WorkerFaultIsolation ==
    (/\ Ended
     /\ \E w \in Workers :
           /\ wpc[w] = "raised"
           /\ wi[w] >= 1
           /\ \A v \in Workers \ {w} : wpc[v] = "returned") =>
        /\ Len(results) = num_workers
        /\ \A w \in Workers :
              /\ results[w + 1].shards = wresults[w]
              /\ results[w + 1].total_size = wtotal_size[w]
              /\ results[w + 1].total_time = wtotal_time[w]
        /\ report # <<>>

\* C6 (aggregate arithmetic): when the statistics are printed, the combined
\* size is the sum of the workers' total sizes, the total time is the largest
\* of the workers' total times, the effective speed is their quotient, and
\* the speed of each volume is the quotient of its own size and time.
C6_AggregateArithmetic ==
    hpc = "done" =>
        /\ report.total_size = WorkerSum(wtotal_size, num_workers)
        /\ \E w \in Workers : report.max_time = wtotal_time[w]
        /\ \A w \in Workers : report.max_time >= wtotal_time[w]
        /\ SameQuotient(report.effective,
                        WorkerSum(wtotal_size, num_workers), report.max_time)
        /\ \A w \in Workers :
              /\ report.volumes[w + 1].raid_name = RaidName(w)
              /\ SameQuotient(report.volumes[w + 1].rate,
                              wtotal_size[w], wtotal_time[w])

C6_Witness ==
    /\ hpc = "done"
    /\ wtotal_time[0] < wtotal_time[1]
    /\ wtotal_size[0] > wtotal_size[1]

\* C7 (within-worker ordering): in every state, the list of each worker is
\* the shards of its volume in ascending order, and the files of its
\* per-shard results are the first wi entries of that list, in order, one
\* result per shard.
C7_WithinWorkerOrdering ==
    \A w \in Workers :
        /\ hpc # "get_weight_files" =>
              /\ Range(files[w]) = dirs[w]
              /\ \A p \in DOMAIN files[w] : \A q \in DOMAIN files[w] :
                    p < q => files[w][p] < files[w][q]
        /\ Len(wresults[w]) = wi[w]
        /\ wi[w] <= Len(files[w])
        /\ \A p \in DOMAIN wresults[w] : wresults[w][p].file = files[w][p]

C7_Witness ==
    /\ wpc[0] = "loop"
    /\ wpc[1] = "loop"
    /\ wi[0] = 3
    /\ wi[1] = 6

\* C8 (join barrier): once pool.map has returned, and so when the overall
\* statistics are computed, every worker has returned after loading every
\* shard of its list, and the result of each worker is made of its own list
\* alone: its shards are that list, and its totals are the sums over them.
C8_JoinBarrier ==
    hpc \in {"stats", "done"} =>
        /\ Len(results) = num_workers
        /\ \A w \in Workers :
              /\ wpc[w] = "returned"
              /\ wi[w] = Len(files[w])
              /\ results[w + 1].worker_id = w
              /\ results[w + 1].shards = wresults[w]
              /\ Len(results[w + 1].shards) = Len(files[w])
              /\ \A p \in DOMAIN files[w] :
                    results[w + 1].shards[p].file = files[w][p]
              /\ results[w + 1].total_size
                    = ShardSum(w, "size", Len(files[w]))
              /\ results[w + 1].total_time
                    = ShardSum(w, "time", Len(files[w]))

C8_Witness ==
    /\ hpc = "done"
    /\ report # <<>>
    /\ results[1].total_time > results[2].total_time

====
